---------------------------- MODULE Spec2Model ----------------------------
(***************************************************************************)
(* Model of the "hello triangle" program in src/main.cpp: initWindow, the  *)
(* linear GL set-up in main, the render loop, processInput and the         *)
(* framebuffer resize callback.  The windowing system and the GL driver    *)
(* are the environment: the outcome of window creation, of the GL loader,  *)
(* of shader compilation and of program linking, and the events delivered  *)
(* by glfwPollEvents are chosen nondeterministically.                      *)
(***************************************************************************)
EXTENDS Integers, Sequences, FiniteSets, TLC

(* ------------------------------ bounds -------------------------------- *)
\* framebuffer sizes the windowing system may report are 1..MaxDim
MaxDim == 2
\* most events one glfwPollEvents call delivers
MaxEvents == 2
\* the frame counter saturates here (it never blocks the loop)
MaxFrames == 2

(* ------------------------- program constants -------------------------- *)
WindowWidth == 800
WindowHeight == 600
SizeofFloat == 4
SizeofUInt == 4
\* glVertexAttribPointer(0, 3, GL_FLOAT, GL_FALSE, 3 * sizeof(float), 0)
AttribSize == 3
AttribStride == 3 * SizeofFloat
AttribOffset == 0
\* glDrawElements(GL_TRIANGLES, 6, GL_UNSIGNED_INT, 0)
DrawCount == 6
DrawOffset == 0

\* float vertices[]: the coordinates in tenths (-0.5f is -5, 1.0f is 10)
vertices ==
  << -5, 5, 0,   -10, -5, 0,   0, -5, 0,
      5, 5, 0,     0, -5, 0,  10, -5, 0 >>

\* variant of indices: numbered from 1
indicesOneBased == << 1, 2, 3, 4, 5, 6 >>

\* unsigned int indices[]
indices == << 0, 1, 2, 3, 4, 5 >>

\* the messages the program writes to std::cout
MsgWindow == "Failed to create window"
MsgGlad == "Failed to initialize GLAD"
MsgVertex == "ERROR::SHADER::VERTEX::COMPILATION_FAILED"

Dims == 1..MaxDim

\* what glfwPollEvents can deliver to this window
Event ==
  [type : {"keyPress", "keyRelease", "close"}]
    \cup [type : {"resize"}, w : Dims, h : Dims]

EventSeqs == UNION {[1..n -> Event] : n \in 0..MaxEvents}

NoObjects == [n \in {} |-> 0]

VARIABLES
  pc,              \* position in main / initWindow
  glfwInited,      \* glfwInit has been called
  window,          \* the GLFWwindow exists (initWindow's window != NULL)
  terminateCalls,  \* number of glfwTerminate calls
  exitCode,        \* -1 while running, else the process's exit status
  exitVia,         \* "none", "exit" (exit(0) in initWindow) or "return"
  stdout,          \* what was written to std::cout
  failures,        \* the failure points that occurred
  shouldClose,     \* the window's close flag
  closeCause,      \* who set the close flag
  escKey,          \* GLFW's cached state of GLFW_KEY_ESCAPE
  resizeCallback,  \* framebuffer_size_callback is installed
  lastResize,      \* <<w, h>> of the last framebuffer resize event
  viewport,        \* <<x, y, width, height>> of glViewport
  polygonMode,     \* "fill" or "line"
  clearColor,      \* the glClearColor state, in tenths
  VAO, VBO, EBO, vertexShader, fragmentShader, shaderProgram, \* main's locals
  vaos,            \* vertex array objects: name -> [elementBuffer, attrib0]
  buffers,         \* buffer objects: name -> [data, elemSize, uploads]
  shaders,         \* shader objects: name -> [type, compiled, deleted]
  programs,        \* program objects: name -> [attached, linked]
  boundVAO, boundArrayBuffer, currentProgram, \* GL bindings
  deleted,         \* the explicit glDelete* calls made
  iterTrace,       \* the steps of the current loop iteration, in order
  frames,          \* completed iterations (saturating at MaxFrames)
  lastDraw,        \* the GL state seen by the last glDrawElements
  loopExited,      \* the loop-head test has ended the loop
  drawnAfterExit   \* a draw call was issued after the loop ended

locals == <<VAO, VBO, EBO, vertexShader, fragmentShader, shaderProgram>>
objects == <<vaos, buffers, shaders, programs>>
bindings == <<boundVAO, boundArrayBuffer, currentProgram>>
procVars == <<glfwInited, window, terminateCalls, exitCode, exitVia>>
inputVars == <<shouldClose, closeCause, escKey, lastResize>>
drawn == <<lastDraw, loopExited, drawnAfterExit>>
loopVars == <<iterTrace, frames, drawn>>

glState == <<polygonMode, clearColor>>

vars == <<pc, procVars, stdout, failures, inputVars, resizeCallback, viewport,
          glState, locals, objects, bindings, deleted, loopVars>>

NoDraw == [issued |-> FALSE]

Init ==
  /\ pc = "initWindow"
  /\ glfwInited = FALSE
  /\ window = FALSE
  /\ terminateCalls = 0
  /\ exitCode = -1
  /\ exitVia = "none"
  /\ stdout = <<>>
  /\ failures = {}
  /\ shouldClose = FALSE
  /\ closeCause = "none"
  /\ escKey = FALSE
  /\ resizeCallback = FALSE
  /\ lastResize = <<>>
  /\ viewport = <<0, 0, 0, 0>>
  /\ polygonMode = "fill"
  /\ clearColor = <<0, 0, 0, 0>>
  /\ VAO = 0 /\ VBO = 0 /\ EBO = 0
  /\ vertexShader = 0 /\ fragmentShader = 0 /\ shaderProgram = 0
  /\ vaos = NoObjects
  /\ buffers = NoObjects
  /\ shaders = NoObjects
  /\ programs = NoObjects
  /\ boundVAO = 0 /\ boundArrayBuffer = 0 /\ currentProgram = 0
  /\ deleted = <<>>
  /\ iterTrace = <<>>
  /\ frames = 0
  /\ lastDraw = NoDraw
  /\ loopExited = FALSE
  /\ drawnAfterExit = FALSE

(* ----------------------------- helpers -------------------------------- *)

\* glGen* / glCreate*: an unused, non-zero name of the namespace
FreshName(used) == CHOOSE n \in 1..(Cardinality(used) + 1) : n \notin used

\* glfwTerminate()
Terminate ==
  /\ terminateCalls' = terminateCalls + 1
  /\ window' = FALSE

\* exit(0)
Exit0 ==
  /\ exitCode' = 0
  /\ exitVia' = "exit"
  /\ pc' = "done"

(* ----------------------------- initWindow ----------------------------- *)

\* glfwInit, the window hints, glfwCreateWindow and the window == NULL branch
CreateWindow ==
  /\ pc = "initWindow"
  /\ glfwInited' = TRUE
  /\ \E ok \in BOOLEAN :
       IF ok
         THEN /\ window' = TRUE
              /\ pc' = "loadGL"
              /\ UNCHANGED <<terminateCalls, exitCode, exitVia, stdout,
                             failures>>
         ELSE /\ failures' = failures \cup {"window"}
              /\ stdout' = Append(stdout, MsgWindow)
              /\ Terminate
              /\ Exit0
  /\ UNCHANGED <<inputVars, resizeCallback, viewport, glState, locals,
                 objects, bindings, deleted, loopVars>>

\* variant of OnLoaderFailure: the message is written, exit(0) is missing
OnLoaderFailureNoExit ==
  /\ stdout' = Append(stdout, MsgGlad)
  /\ resizeCallback' = TRUE
  /\ viewport' = <<0, 0, WindowWidth, WindowHeight>>
  /\ pc' = "polygonMode"
  /\ UNCHANGED <<exitCode, exitVia>>

\* what initWindow does when gladLoadGLLoader fails: message, exit(0)
OnLoaderFailure ==
  /\ stdout' = Append(stdout, MsgGlad)
  /\ Exit0
  /\ UNCHANGED <<resizeCallback, viewport>>

\* the rest of initWindow: install the resize callback, set the viewport
FinishInitWindow ==
  /\ resizeCallback' = TRUE
  /\ viewport' = <<0, 0, WindowWidth, WindowHeight>>
  /\ pc' = "polygonMode"
  /\ UNCHANGED <<stdout, exitCode, exitVia>>

\* glfwMakeContextCurrent, gladLoadGLLoader and the rest of initWindow
LoadGL ==
  /\ pc = "loadGL"
  /\ \E ok \in BOOLEAN :
       IF ok
         THEN FinishInitWindow /\ UNCHANGED failures
         ELSE OnLoaderFailure /\ failures' = failures \cup {"glad"}
  /\ UNCHANGED <<glfwInited, window, terminateCalls, inputVars, glState,
                 locals, objects, bindings, deleted, loopVars>>

(* ------------------------------ main: set-up -------------------------- *)

\* variant of PolygonModeArg: the default mode, GL_FILL
PolygonModeArgFill == "fill"

\* the mode main passes to glPolygonMode(GL_FRONT_AND_BACK, ...)
PolygonModeArg == "line"

\* glPolygonMode(GL_FRONT_AND_BACK, GL_LINE)
SetPolygonMode ==
  /\ pc = "polygonMode"
  /\ polygonMode' = PolygonModeArg
  /\ pc' = "genVAO"
  /\ UNCHANGED <<procVars, stdout, failures, inputVars, resizeCallback,
                 viewport, clearColor, locals, objects, bindings, deleted,
                 loopVars>>

NoAttrib == [enabled |-> FALSE, size |-> 0, stride |-> 0, offset |-> 0,
             buffer |-> 0]

\* glGenVertexArrays(1, &VAO); glBindVertexArray(VAO)
SetupVAO ==
  /\ pc = "genVAO"
  /\ LET n == FreshName(DOMAIN vaos) IN
       /\ VAO' = n
       /\ vaos' = (n :> [elementBuffer |-> 0, attrib0 |-> NoAttrib]) @@ vaos
       /\ boundVAO' = n
  /\ pc' = "genVBO"
  /\ UNCHANGED <<procVars, stdout, failures, inputVars, resizeCallback,
                 viewport, glState, VBO, EBO, vertexShader, fragmentShader,
                 shaderProgram, buffers, shaders, programs, boundArrayBuffer,
                 currentProgram, deleted, loopVars>>

\* glBufferData(target, sizeof(data), data, GL_STATIC_DRAW) on buffer n
BufferData(bufs, n, data, elemSize) ==
  [bufs EXCEPT ![n] = [data |-> data, elemSize |-> elemSize,
                       uploads |-> @.uploads + 1]]

NewBuffer == [data |-> <<>>, elemSize |-> 1, uploads |-> 0]

\* glGenBuffers(1, &VBO); glBindBuffer(GL_ARRAY_BUFFER, VBO); glBufferData
SetupVBO ==
  /\ pc = "genVBO"
  /\ LET n == FreshName(DOMAIN buffers) IN
       /\ VBO' = n
       /\ boundArrayBuffer' = n
       /\ buffers' = BufferData((n :> NewBuffer) @@ buffers, n, vertices,
                                SizeofFloat)
  /\ pc' = "genEBO"
  /\ UNCHANGED <<procVars, stdout, failures, inputVars, resizeCallback,
                 viewport, glState, VAO, EBO, vertexShader, fragmentShader,
                 shaderProgram, vaos, shaders, programs, boundVAO,
                 currentProgram, deleted, loopVars>>

\* glGenBuffers(1, &EBO); glBindBuffer(GL_ELEMENT_ARRAY_BUFFER, EBO);
\* glBufferData.  The element binding is recorded in the bound VAO.
SetupEBO ==
  /\ pc = "genEBO"
  /\ LET n == FreshName(DOMAIN buffers) IN
       /\ EBO' = n
       /\ vaos' = IF boundVAO \in DOMAIN vaos
                    THEN [vaos EXCEPT ![boundVAO].elementBuffer = n]
                    ELSE vaos
       /\ buffers' = BufferData((n :> NewBuffer) @@ buffers, n, indices,
                                SizeofUInt)
  /\ pc' = "vertexShader"
  /\ UNCHANGED <<procVars, stdout, failures, inputVars, resizeCallback,
                 viewport, glState, VAO, VBO, vertexShader, fragmentShader,
                 shaderProgram, shaders, programs, bindings, deleted,
                 loopVars>>

\* shader and program objects share one namespace
ShaderNames == DOMAIN shaders \cup DOMAIN programs

\* glCreateShader, glShaderSource, glCompileShader, glGetShaderiv and the
\* if (!success) branch that writes the message
CompileVertexShader ==
  /\ pc = "vertexShader"
  /\ \E ok \in BOOLEAN :
       LET n == FreshName(ShaderNames) IN
         /\ vertexShader' = n
         /\ shaders' = (n :> [type |-> "vertex", compiled |-> ok,
                              deleted |-> FALSE]) @@ shaders
         /\ IF ok
              THEN UNCHANGED <<stdout, failures>>
              ELSE /\ stdout' = Append(stdout, MsgVertex)
                   /\ failures' = failures \cup {"vertexCompile"}
  /\ pc' = "fragmentShader"
  /\ UNCHANGED <<procVars, inputVars, resizeCallback, viewport, glState, VAO,
                 VBO, EBO, fragmentShader, shaderProgram, vaos, buffers,
                 programs, bindings, deleted, loopVars>>

\* glCreateShader, glShaderSource, glCompileShader: the status is not read
CompileFragmentShader ==
  /\ pc = "fragmentShader"
  /\ \E ok \in BOOLEAN :
       LET n == FreshName(ShaderNames) IN
         /\ fragmentShader' = n
         /\ shaders' = (n :> [type |-> "fragment", compiled |-> ok,
                              deleted |-> FALSE]) @@ shaders
         /\ failures' = IF ok THEN failures
                        ELSE failures \cup {"fragmentCompile"}
  /\ pc' = "program"
  /\ UNCHANGED <<procVars, stdout, inputVars, resizeCallback, viewport,
                 glState, VAO, VBO, EBO, vertexShader, shaderProgram, vaos,
                 buffers, programs, bindings, deleted, loopVars>>

\* glLinkProgram can succeed only when every attached shader compiled
Linkable(attached) == \A s \in attached : shaders[s].compiled

\* glCreateProgram, glAttachShader x2, glLinkProgram, glGetProgramiv and the
\* if (!success) branch, which fetches the info log and writes nothing
LinkProgram ==
  /\ pc = "program"
  /\ \E driverOk \in BOOLEAN :
       LET n == FreshName(ShaderNames)
           att == {vertexShader, fragmentShader}
           ok == Linkable(att) /\ driverOk
       IN
         /\ shaderProgram' = n
         /\ programs' = (n :> [attached |-> att, linked |-> ok]) @@ programs
         /\ failures' = IF ok THEN failures ELSE failures \cup {"link"}
  /\ pc' = "attrib"
  /\ UNCHANGED <<procVars, stdout, inputVars, resizeCallback, viewport,
                 glState, VAO, VBO, EBO, vertexShader, fragmentShader, vaos,
                 buffers, shaders, bindings, deleted, loopVars>>

\* glVertexAttribPointer(0, 3, GL_FLOAT, GL_FALSE, 3 * sizeof(float), 0):
\* the attribute takes the buffer bound to GL_ARRAY_BUFFER at the call;
\* glEnableVertexAttribArray(0)
SetupAttrib ==
  /\ pc = "attrib"
  /\ vaos' = IF boundVAO \in DOMAIN vaos
               THEN [vaos EXCEPT ![boundVAO].attrib0 =
                       [enabled |-> TRUE, size |-> AttribSize,
                        stride |-> AttribStride, offset |-> AttribOffset,
                        buffer |-> boundArrayBuffer]]
               ELSE vaos
  /\ pc' = "deleteShaders"
  /\ UNCHANGED <<procVars, stdout, failures, inputVars, resizeCallback,
                 viewport, glState, locals, buffers, shaders, programs,
                 bindings, deleted, loopVars>>

\* glDeleteShader(vertexShader); glDeleteShader(fragmentShader): an attached
\* shader is flagged for deletion
DeleteShaders ==
  /\ pc = "deleteShaders"
  /\ shaders' = [s \in DOMAIN shaders |->
                   IF s \in {vertexShader, fragmentShader}
                     THEN [shaders[s] EXCEPT !.deleted = TRUE]
                     ELSE shaders[s]]
  /\ deleted' = deleted \o << <<"shader", vertexShader>>,
                              <<"shader", fragmentShader>> >>
  /\ pc' = "loopHead"
  /\ UNCHANGED <<procVars, stdout, failures, inputVars, resizeCallback,
                 viewport, glState, locals, vaos, buffers, programs, bindings,
                 loopVars>>

(* ---------------------------- main: render loop ----------------------- *)

\* one statement of the loop body: position, trace entry, next position
Step(from, to) ==
  /\ pc = from
  /\ pc' = to
  /\ iterTrace' = Append(iterTrace, from)

\* variant of LoopCondition: the negation is missing
LoopConditionInverted(flag) == flag

\* the condition of while (!glfwWindowShouldClose(window))
LoopCondition(flag) == ~flag

\* the loop-head test: enter the body or leave the loop
LoopHead ==
  /\ pc = "loopHead"
  /\ IF LoopCondition(shouldClose)
       THEN pc' = "processInput" /\ UNCHANGED loopExited
       ELSE pc' = "terminate" /\ loopExited' = TRUE
  /\ iterTrace' = <<>>
  /\ UNCHANGED <<procVars, stdout, failures, inputVars, resizeCallback,
                 viewport, glState, locals, objects, bindings, deleted,
                 frames, lastDraw, drawnAfterExit>>

\* variant of ProcessInput: Escape leaves the loop at once
ProcessInputBreak ==
  /\ pc = "processInput"
  /\ iterTrace' = Append(iterTrace, "processInput")
  /\ IF escKey
       THEN /\ shouldClose' = TRUE
            /\ closeCause' = IF shouldClose THEN closeCause ELSE "escape"
            /\ pc' = "terminate"
            /\ loopExited' = TRUE
       ELSE /\ pc' = "clear"
            /\ UNCHANGED <<shouldClose, closeCause, loopExited>>
  /\ UNCHANGED <<procVars, stdout, failures, escKey, lastResize,
                 resizeCallback, viewport, glState, locals, objects, bindings,
                 deleted, frames, lastDraw, drawnAfterExit>>

\* processInput: glfwGetKey(window, GLFW_KEY_ESCAPE) == GLFW_PRESS sets the
\* close flag; control returns to the loop body either way
ProcessInput ==
  /\ Step("processInput", "clear")
  /\ IF escKey
       THEN /\ shouldClose' = TRUE
            /\ closeCause' = IF shouldClose THEN closeCause ELSE "escape"
       ELSE UNCHANGED <<shouldClose, closeCause>>
  /\ UNCHANGED <<procVars, stdout, failures, escKey, lastResize,
                 resizeCallback, viewport, glState, locals, objects, bindings,
                 deleted, frames, drawn>>

\* glClearColor(0.0f, 0.0f, 0.7f, 1.0f); glClear(GL_COLOR_BUFFER_BIT)
Clear ==
  /\ Step("clear", "useProgram")
  /\ clearColor' = <<0, 0, 7, 10>>
  /\ UNCHANGED <<procVars, stdout, failures, inputVars, resizeCallback,
                 viewport, polygonMode, locals, objects, bindings, deleted,
                 frames, drawn>>

\* glUseProgram(shaderProgram): a program that is not linked raises
\* GL_INVALID_OPERATION and leaves the current program as it was
UseProgram ==
  /\ Step("useProgram", "bindVAO")
  /\ currentProgram' = IF /\ shaderProgram \in DOMAIN programs
                          /\ programs[shaderProgram].linked
                         THEN shaderProgram
                         ELSE currentProgram
  /\ UNCHANGED <<procVars, stdout, failures, inputVars, resizeCallback,
                 viewport, glState, locals, objects, boundVAO,
                 boundArrayBuffer, deleted, frames, drawn>>

\* glBindVertexArray(VAO)
BindVAO ==
  /\ Step("bindVAO", "draw")
  /\ boundVAO' = VAO
  /\ UNCHANGED <<procVars, stdout, failures, inputVars, resizeCallback,
                 viewport, glState, locals, objects, boundArrayBuffer,
                 currentProgram, deleted, frames, drawn>>

\* the i-th (0-based) index glDrawElements fetches lies inside the element
\* buffer
IndexInBounds(ebo, i) ==
  /\ ebo \in DOMAIN buffers
  /\ DrawOffset + (i + 1) * SizeofUInt
       <= Len(buffers[ebo].data) * buffers[ebo].elemSize

IndexAt(ebo, i) == buffers[ebo].data[(DrawOffset \div SizeofUInt) + i + 1]

\* the attribute fetch of vertex v lies inside the attribute's buffer
VertexInBounds(att, v) ==
  /\ att.enabled
  /\ att.buffer \in DOMAIN buffers
  /\ att.offset + v * att.stride + att.size * SizeofFloat
       <= Len(buffers[att.buffer].data) * buffers[att.buffer].elemSize

\* the coordinates the attribute fetch of vertex v yields
VertexAt(att, v) ==
  [k \in 1..att.size |->
     buffers[att.buffer].data[((att.offset + v * att.stride) \div SizeofFloat)
                              + k]]

\* what glDrawElements(GL_TRIANGLES, count, GL_UNSIGNED_INT, 0) sees and reads
DrawRecord(count) ==
  LET vao == IF boundVAO \in DOMAIN vaos THEN vaos[boundVAO]
             ELSE [elementBuffer |-> 0, attrib0 |-> NoAttrib]
      ebo == vao.elementBuffer
      att == vao.attrib0
      idxOk == \A i \in 0..(count - 1) : IndexInBounds(ebo, i)
      idx == IF idxOk THEN [i \in 1..count |-> IndexAt(ebo, i - 1)] ELSE <<>>
      vtxOk == idxOk /\ \A i \in 1..count : VertexInBounds(att, idx[i])
  IN [issued |-> TRUE,
      polygonMode |-> polygonMode,
      program |-> currentProgram,
      vao |-> boundVAO,
      elementBuffer |-> ebo,
      attrib0 |-> att,
      count |-> count,
      fetched |-> idx,
      inBounds |-> vtxOk,
      positions |-> IF vtxOk THEN [i \in 1..count |-> VertexAt(att, idx[i])]
                    ELSE <<>>]

\* variant of Draw: one draw call per triangle
DrawPerTriangle ==
  /\ pc = "draw"
  /\ iterTrace' = Append(iterTrace, "draw")
  /\ pc' = IF \E i \in 1..Len(iterTrace) : iterTrace[i] = "draw"
             THEN "unbindVAO" ELSE "draw"
  /\ lastDraw' = DrawRecord(3)
  /\ drawnAfterExit' = (drawnAfterExit \/ loopExited)
  /\ UNCHANGED <<procVars, stdout, failures, inputVars, resizeCallback,
                 viewport, glState, locals, objects, bindings, deleted,
                 frames, loopExited>>

\* glDrawElements(GL_TRIANGLES, 6, GL_UNSIGNED_INT, 0)
Draw ==
  /\ Step("draw", "unbindVAO")
  /\ lastDraw' = DrawRecord(DrawCount)
  /\ drawnAfterExit' = (drawnAfterExit \/ loopExited)
  /\ UNCHANGED <<procVars, stdout, failures, inputVars, resizeCallback,
                 viewport, glState, locals, objects, bindings, deleted,
                 frames, loopExited>>

\* glBindVertexArray(0)
UnbindVAO ==
  /\ Step("unbindVAO", "swap")
  /\ boundVAO' = 0
  /\ UNCHANGED <<procVars, stdout, failures, inputVars, resizeCallback,
                 viewport, glState, locals, objects, boundArrayBuffer,
                 currentProgram, deleted, frames, drawn>>

\* glfwSwapBuffers(window)
SwapBuffers ==
  /\ Step("swap", "poll")
  /\ UNCHANGED <<procVars, stdout, failures, inputVars, resizeCallback,
                 viewport, glState, locals, objects, bindings, deleted,
                 frames, drawn>>

\* framebuffer_size_callback(window, int height, int width): the body calls
\* glViewport(0, 0, width, height) on its own parameters
framebuffer_size_callback(height, width) == <<0, 0, width, height>>

\* the input state one event changes.  GLFW calls the framebuffer size
\* callback as callback(window, width, height).
Handle(st, ev) ==
  CASE ev.type = "keyPress" -> [st EXCEPT !.escKey = TRUE]
    [] ev.type = "keyRelease" -> [st EXCEPT !.escKey = FALSE]
    [] ev.type = "close" ->
         [st EXCEPT !.shouldClose = TRUE,
                    !.closeCause = IF st.shouldClose THEN @ ELSE "windowClose"]
    [] ev.type = "resize" ->
         [st EXCEPT !.lastResize = <<ev.w, ev.h>>,
                    !.viewport = IF resizeCallback
                                   THEN framebuffer_size_callback(ev.w, ev.h)
                                   ELSE @]

RECURSIVE Deliver(_, _)
Deliver(st, evs) ==
  IF evs = <<>> THEN st ELSE Deliver(Handle(st, Head(evs)), Tail(evs))

Min(a, b) == IF a < b THEN a ELSE b

\* glfwPollEvents(): the pending events are handled in order, then control
\* returns to the loop head
PollEvents ==
  /\ Step("poll", "loopHead")
  /\ \E evs \in EventSeqs :
       LET st == Deliver([escKey |-> escKey, shouldClose |-> shouldClose,
                          closeCause |-> closeCause,
                          lastResize |-> lastResize, viewport |-> viewport],
                         evs)
       IN /\ escKey' = st.escKey
          /\ shouldClose' = st.shouldClose
          /\ closeCause' = st.closeCause
          /\ lastResize' = st.lastResize
          /\ viewport' = st.viewport
  /\ frames' = Min(frames + 1, MaxFrames)
  /\ UNCHANGED <<procVars, stdout, failures, resizeCallback, glState, locals,
                 objects, bindings, deleted, drawn>>

\* variant of Shutdown: the GL objects are deleted before glfwTerminate
ShutdownWithCleanup ==
  /\ pc = "terminate"
  /\ deleted' = deleted \o << <<"vertexArray", VAO>>, <<"buffer", VBO>>,
                              <<"buffer", EBO>>, <<"program", shaderProgram>> >>
  /\ Terminate
  /\ exitCode' = 0
  /\ exitVia' = "return"
  /\ pc' = "done"
  /\ UNCHANGED <<glfwInited, stdout, failures, inputVars, resizeCallback,
                 viewport, glState, locals, objects, bindings, loopVars>>

\* glfwTerminate(); return 0
Shutdown ==
  /\ pc = "terminate"
  /\ Terminate
  /\ exitCode' = 0
  /\ exitVia' = "return"
  /\ pc' = "done"
  /\ UNCHANGED <<glfwInited, stdout, failures, inputVars, resizeCallback,
                 viewport, glState, locals, objects, bindings, deleted,
                 loopVars>>

Next ==
  \/ CreateWindow
  \/ LoadGL
  \/ SetPolygonMode
  \/ SetupVAO
  \/ SetupVBO
  \/ SetupEBO
  \/ CompileVertexShader
  \/ CompileFragmentShader
  \/ LinkProgram
  \/ SetupAttrib
  \/ DeleteShaders
  \/ LoopHead
  \/ ProcessInput
  \/ Clear
  \/ UseProgram
  \/ BindVAO
  \/ Draw
  \/ UnbindVAO
  \/ SwapBuffers
  \/ PollEvents
  \/ Shutdown

Spec == Init /\ [][Next]_vars

\* the program is one thread that runs to completion: every step is taken
FairSpec == Spec /\ WF_vars(Next)

(* ============================== properties ============================ *)

\* the order of the loop body's statements that the specification describes
ClaimedOrder ==
  <<"processInput", "clear", "useProgram", "bindVAO", "draw", "unbindVAO",
    "swap", "poll">>

InLoopBody == pc \in {ClaimedOrder[i] : i \in 1..Len(ClaimedOrder)}

\* the statement that follows statement p of the loop body
Successor(p) ==
  IF p = "poll" THEN "loopHead"
  ELSE LET i == CHOOSE j \in 1..Len(ClaimedOrder) : ClaimedOrder[j] = p
       IN ClaimedOrder[i + 1]

Occurrences(seq, x) == Cardinality({i \in 1..Len(seq) : seq[i] = x})

ShaderFailed == failures \cap {"vertexCompile", "fragmentCompile", "link"} # {}

SetupFailed == failures \cap {"window", "glad"} # {}

NoGLObjects ==
  /\ DOMAIN vaos = {} /\ DOMAIN buffers = {}
  /\ DOMAIN shaders = {} /\ DOMAIN programs = {}
  /\ locals = <<0, 0, 0, 0, 0, 0>>

(* C1: the render loop draws one frame per iteration while the close flag  *)
(* is unset; it ends only at a loop-head test that finds the flag set, and *)
(* the flag was set by Escape seen in processInput or by a window-close    *)
(* event of glfwPollEvents; after the loop ends no draw call is issued,    *)
(* glfwTerminate is called and main returns 0.                             *)
C1_LoopRunsUntilCloseFlag ==
  /\ [](loopExited =>
          shouldClose /\ closeCause \in {"escape", "windowClose"})
  /\ [](shouldClose <=> closeCause # "none")
  /\ [](~drawnAfterExit)
  /\ [](pc = "poll" => Occurrences(iterTrace, "draw") = 1)
  /\ [][pc = "loopHead" =>
          IF shouldClose
            THEN pc' = "terminate" /\ loopExited'
            ELSE pc' = "processInput" /\ ~loopExited']_vars
  /\ [][pc = "terminate" =>
          /\ pc' = "done" /\ terminateCalls' = terminateCalls + 1
          /\ exitCode' = 0 /\ exitVia' = "return"]_vars
  /\ (loopExited ~> (pc = "done" /\ exitVia = "return" /\ exitCode = 0))

C1_Witness ==
  /\ pc = "done" /\ exitVia = "return" /\ terminateCalls = 1
  /\ closeCause = "escape" /\ frames >= 2

(* C2: each failure point (window creation, GL loader, shader compilation  *)
(* or program linking) writes a message to standard output when it occurs. *)
C2_EveryFailureWritesMessage ==
  /\ "window" \in failures => \E i \in 1..Len(stdout) : stdout[i] = MsgWindow
  /\ "glad" \in failures => \E i \in 1..Len(stdout) : stdout[i] = MsgGlad
  /\ ShaderFailed => \E i \in 1..Len(stdout) : stdout[i] = MsgVertex

(* C3: a window-creation or GL-loader failure ends the process at once,    *)
(* before any GL object exists and without entering the render loop; a     *)
(* shader compile or link failure does not end the process: set-up goes    *)
(* on, the loop is entered and draw calls are issued.                      *)
C3_TwoFailuresExitOneContinues ==
  /\ [](SetupFailed =>
          /\ pc = "done" /\ exitVia = "exit"
          /\ NoGLObjects
          /\ ~lastDraw.issued /\ iterTrace = <<>> /\ frames = 0)
  /\ [](ShaderFailed => exitVia # "exit" /\ ~SetupFailed)
  /\ [](ShaderFailed /\ pc = "loopHead" /\ frames = 0 => ~shouldClose)
  /\ [](ShaderFailed /\ pc = "unbindVAO" =>
          /\ lastDraw.issued
          /\ ("link" \in failures => ~programs[shaderProgram].linked))
  /\ (ShaderFailed ~> lastDraw.issued)

C3_Witness ==
  /\ "fragmentCompile" \in failures /\ "link" \in failures
  /\ lastDraw.issued /\ frames >= 1 /\ exitVia = "none"

(* C4: every iteration of the render loop runs its statements in one fixed *)
(* order, none skipped or repeated: processInput, clear, use program, bind *)
(* vertex array, one indexed draw, unbind, swap buffers, poll events.      *)
C4_IterationOrderFixed ==
  /\ iterTrace = SubSeq(ClaimedOrder, 1, Len(iterTrace))
  /\ InLoopBody => pc = ClaimedOrder[Len(iterTrace) + 1]
  /\ pc = "loopHead" /\ frames > 0 => iterTrace = ClaimedOrder
  /\ Occurrences(iterTrace, "draw") <= 1

C4_Witness ==
  /\ pc = "loopHead" /\ frames >= 2 /\ iterTrace = ClaimedOrder
  /\ ~shouldClose

(* C5: the close flag is tested once per iteration, at the loop head:      *)
(* when processInput sets it on Escape, the rest of that iteration (clear, *)
(* bind, draw, swap, poll) still runs in full and the loop ends only at    *)
(* the next loop-head test.                                                *)
C5_CloseFlagTestedOnlyAtLoopHead ==
  [][/\ (pc = "processInput" /\ escKey =>
           shouldClose' /\ pc' = "clear" /\ ~loopExited')
     /\ (shouldClose /\ InLoopBody => pc' = Successor(pc) /\ ~loopExited')
     /\ (~loopExited /\ loopExited' =>
           pc = "loopHead" /\ shouldClose /\ iterTrace = ClaimedOrder)]_vars

C5_Witness ==
  /\ pc = "loopHead" /\ shouldClose /\ closeCause = "escape"
  /\ iterTrace = ClaimedOrder /\ ~loopExited /\ lastDraw.issued

\* the GL objects and handles as set-up leaves them
ResourcesAsCreated ==
  /\ DOMAIN vaos = {VAO} /\ VAO # 0
  /\ DOMAIN buffers = {VBO, EBO} /\ VBO # 0 /\ EBO # 0 /\ VBO # EBO
  /\ buffers[VBO].data = vertices /\ buffers[VBO].uploads = 1
  /\ buffers[EBO].data = indices /\ buffers[EBO].uploads = 1
  /\ DOMAIN programs = {shaderProgram} /\ shaderProgram # 0
  /\ DOMAIN shaders = {vertexShader, fragmentShader}
  /\ deleted = << <<"shader", vertexShader>>, <<"shader", fragmentShader>> >>

(* C6: the vertex buffer, index buffer, vertex array object and shader     *)
(* program are created once at start-up; no loop iteration and no          *)
(* shutdown step changes, re-creates or deletes them or their data; the    *)
(* only explicit deletions are of the two shader objects, and shutdown     *)
(* calls glfwTerminate only.                                               *)
C6_ResourcesCreatedOnceNeverChanged ==
  /\ []((pc = "loopHead" \/ InLoopBody \/ loopExited) => ResourcesAsCreated)
  /\ [][(pc = "loopHead" \/ InLoopBody \/ loopExited) =>
          UNCHANGED <<locals, objects, deleted>>]_vars
  /\ [](pc = "done" /\ exitVia = "return" => terminateCalls = 1)

C6_Witness ==
  /\ pc = "done" /\ exitVia = "return" /\ frames >= 2
  /\ buffers[VBO].uploads = 1 /\ Len(deleted) = 2

\* the i-th triangle's three indices
Triple(seq, t) == <<seq[3 * t - 2], seq[3 * t - 1], seq[3 * t]>>

Distinct3(tr) == tr[1] # tr[2] /\ tr[1] # tr[3] /\ tr[2] # tr[3]

(* C7: indices holds 6 entries for two triangles over 6 vertices of 3      *)
(* floats: the draw count equals the length of indices, every index is     *)
(* below the vertex count, the stride is 3 floats, each triple names three *)
(* distinct vertices, and every draw call reads only inside the uploaded   *)
(* vertex and index data.                                                  *)
C7_DrawStaysInsideBuffers ==
  /\ Len(indices) = 6 /\ DrawCount = Len(indices)
  /\ Len(vertices) = 18
  /\ \A i \in 1..Len(indices) :
       indices[i] >= 0 /\ indices[i] < Len(vertices) \div AttribSize
  /\ AttribStride = AttribSize * SizeofFloat
  /\ \A t \in 1..(Len(indices) \div 3) : Distinct3(Triple(indices, t))
  /\ lastDraw.issued =>
       /\ lastDraw.inBounds
       /\ lastDraw.count = Len(buffers[lastDraw.elementBuffer].data)
       /\ lastDraw.fetched = indices
       /\ \A t \in 1..(lastDraw.count \div 3) :
            /\ Distinct3(Triple(lastDraw.fetched, t))
            /\ Distinct3(Triple(lastDraw.positions, t))
       /\ \A i \in 1..lastDraw.count :
            lastDraw.positions[i] =
              SubSeq(vertices, 3 * indices[i] + 1, 3 * indices[i] + 3)

C7_Witness ==
  /\ lastDraw.issued /\ lastDraw.inBounds
  /\ Len(lastDraw.positions) = 6 /\ pc = "unbindVAO"

(* C8: after a framebuffer resize event of width w and height h the        *)
(* resize callback has set the viewport to (0, 0, w, h), for every w, h.   *)
C8_ResizeSetsViewport ==
  (resizeCallback /\ lastResize # <<>>) =>
     viewport = <<0, 0, lastResize[1], lastResize[2]>>

\* the GL state of a draw call, the program aside
DrawStateAsSetUp ==
  /\ lastDraw.polygonMode = "line"
  /\ lastDraw.vao = VAO /\ VAO # 0
  /\ lastDraw.elementBuffer = EBO /\ EBO # 0
  /\ lastDraw.attrib0 =
       [enabled |-> TRUE, size |-> 3, stride |-> 3 * SizeofFloat,
        offset |-> 0, buffer |-> VBO]

VAOUnboundAfterDraw ==
  /\ pc \in {"swap", "poll"} => boundVAO = 0
  /\ (pc \in {"loopHead", "processInput"} /\ frames >= 1) => boundVAO = 0

(* C9 as written: at every draw call the polygon mode is line, the program *)
(* created at start-up is in use, the bound vertex array is the configured *)
(* VAO, and the vertex array is unbound after each draw.                   *)
C9_Original ==
  /\ lastDraw.issued => DrawStateAsSetUp /\ lastDraw.program = shaderProgram
  /\ VAOUnboundAfterDraw

(* C9 amended: at every draw call the polygon mode is line, the bound      *)
(* vertex array is the configured VAO, and the program in use is the one   *)
(* created at start-up when it linked and no program (0) when linking      *)
(* failed; the vertex array is unbound after each draw.                    *)
C9_DrawStateAsSetUp ==
  /\ lastDraw.issued =>
       /\ DrawStateAsSetUp
       /\ lastDraw.program =
            IF programs[shaderProgram].linked THEN shaderProgram ELSE 0
       /\ shaderProgram # 0
  /\ VAOUnboundAfterDraw

C9_Witness ==
  /\ lastDraw.issued /\ frames >= 1 /\ pc = "processInput"
  /\ lastDraw.program = shaderProgram /\ boundVAO = 0

(* C10: on every path on which the process ends after glfwInit was called, *)
(* glfwTerminate has been called exactly once.                             *)
C10_TerminateOnEveryExit ==
  (pc = "done" /\ glfwInited) => terminateCalls = 1

=============================================================================
